---- MODULE Spec2Model ----
(***************************************************************************)
(* Model of youtube_download.py: the per-track pipeline                     *)
(*   text search -> variant discovery -> task creation -> status polls     *)
(*   -> final task read -> asset fetch                                      *)
(* and the batch driver DownloadSong.process_album that runs it for every  *)
(* track of an album that has artist metadata and no attached file.        *)
(*                                                                         *)
(* Every external call (YTMusic search, requests.post, requests.get,       *)
(* time.sleep) is one step; the reply of the remote service is drawn from  *)
(* a small set.  A Python exception that nothing catches is the control    *)
(* state "raised"; in the batch it unwinds process_album and callback.     *)
(***************************************************************************)
EXTENDS Integers, Sequences, FiniteSets

(* ---------------- bounds of the model ---------------- *)
\* number of tracks of the album
MaxTracks == 2
\* longest variant list the conversion service answers with
MaxVariants == 2
\* largest max_retries a direct caller of download_link passes
MaxRetries == 2

(* ---------------- program constants ---------------- *)
BITRATE_192 == 192
\* default of the max_retries parameter of download_link
DEFAULT_MAX_RETRIES == 10
\* the one status code download_mp3 accepts
HTTP_OK == 200
\* requests.Response.ok: raise_for_status raises for the client and server
\* error codes, from HTTP_ERROR_FLOOR up to but not including
\* HTTP_ERROR_CEILING
HTTP_ERROR_FLOOR == 400
HTTP_ERROR_CEILING == 600

(* ---------------- value domains ---------------- *)
\* Python None, and a function that has not returned yet
None == "None"
NotReturned == "-"

Titles == {"a", "b"}
MetadataKeys == {"artists", "artist", "none"}
Tracks == [artistKey : MetadataKeys, nfiles : {0, 1}, title : Titles]

Hashes == {"h1", "h2"}
Bitrates == {128, BITRATE_192}
Variants == [hash : Hashes, bitrate : Bitrates]
VariantLists == UNION {[1..n -> Variants] : n \in 0..MaxVariants}

\* status codes of a requests.post / requests.get reply
PostStatuses == {200, 404}
GetStatuses == {200, 204, 404}
TaskIdReplies == {"t1", "", None}
PollReplies == {"pending", "finished"}
DownloadReplies == {"https://dl/f.mp3", "", None}
Bytes == {"x", "y"}
NoFile == "<no file>"

\* first entry of the YTMusic result list: videoId, and which display
\* fields it carries (album is a dict with a name, None, or missing)
SearchResults == [videoId : {"abc123", "", None},
                  title : BOOLEAN,
                  album : {"named", "None", "absent"}]
SearchResultLists == {<<>>} \cup {<<r>> : r \in SearchResults}

(* ---------------- diagnostics printed by the pipeline ---------------- *)
SearchServiceError == "Error occurred during the search:"
NotFound == "Song not found."
IncompleteResult == "Video ID not found in the search results."
NoMatchingVariant == "No suitable task found for conversion."
TimedOut == "Conversion not completed within the specified time."
MissingAssetURL == "Download URL not found in the response."
TransferFailed == "Download failed with status code:"
TaggedFailures == {SearchServiceError, NotFound, IncompleteResult,
                   NoMatchingVariant, TimedOut, MissingAssetURL, TransferFailed}

(* ---------------- pure helpers ---------------- *)
\* mutant: the "if not x" tests never fire
TruthyAlways(v) == TRUE
\* mutant: "if x is None" in place of "if not x"
TruthyUnlessNone(v) == v # None

\* Python truthiness of an optional string: "not x" holds for None and ""
Truthy(v) == v # None /\ v # ""

\* requests.Response.ok: TRUE unless raise_for_status would raise
ok(status) == ~(HTTP_ERROR_FLOOR <= status /\ status < HTTP_ERROR_CEILING)

\* mutants of the loop bound: one iteration too many, one too few
AttemptBudgetOneMore(n) == n + 2
AttemptBudgetOneLess(n) == n

\* number of iterations of "for _ in range(max_retries + 1)"
AttemptBudget(n) == IF n + 1 > 0 THEN n + 1 ELSE 0

\* the status test of wait_for_conversion_completion
IsFinished(status) == status = "finished"

\* mutant: falls back to the first variant when no bitrate matches
FirstMatchOrFallback(tasks, bitrate) ==
  IF \E k \in 1..Len(tasks) : tasks[k].bitrate = bitrate
  THEN CHOOSE k \in 1..Len(tasks) :
         /\ tasks[k].bitrate = bitrate
         /\ \A j \in 1..(k - 1) : tasks[j].bitrate # bitrate
  ELSE IF Len(tasks) > 0 THEN 1 ELSE 0

\* mutant: the scan does not stop at the first match
LastMatch(tasks, bitrate) ==
  IF \E k \in 1..Len(tasks) : tasks[k].bitrate = bitrate
  THEN CHOOSE k \in 1..Len(tasks) :
         /\ tasks[k].bitrate = bitrate
         /\ \A j \in (k + 1)..Len(tasks) : tasks[j].bitrate # bitrate
  ELSE 0

\* the scan of create_conversion_task: index of the first variant whose
\* bitrate equals the requested one, 0 when the loop falls through
FirstMatch(tasks, bitrate) ==
  IF \E k \in 1..Len(tasks) : tasks[k].bitrate = bitrate
  THEN CHOOSE k \in 1..Len(tasks) :
         /\ tasks[k].bitrate = bitrate
         /\ \A j \in 1..(k - 1) : tasks[j].bitrate # bitrate
  ELSE 0

\* mutant: the body is saved whatever the status code
FetchAcceptedAlways(status) == TRUE

\* the status test of download_mp3
FetchAccepted(status) == status = HTTP_OK

\* os.path.join(temp_dir, f"{title}.mp3"); temp_dir is one fresh directory
\* per process_album call
Filename(title) == title \o ".mp3"
Filenames == {Filename(t) : t \in Titles}

\* process_album: the track has "artists" or "artist" metadata
HasArtists(track) == track.artistKey \in {"artists", "artist"}
\* process_album: the track is handed to download_track
Eligible(track) == HasArtists(track) /\ track.nfiles = 0

VARIABLES
  album,          \* album.tracks, fixed for the batch
  idx,            \* position of the for loop of process_album
  attempted,      \* indices of the tracks handed to download_track, in order
  outcomes,       \* outcomes[k]: what download_track returned for
                  \* attempted[k]
  added,          \* filenames handed to track.tagger.add_files, in order
  fs,             \* the temporary directory: filename -> content
  pc,             \* control point
  filename,       \* destination path of the current run
  max_retries,    \* parameter of download_link
  search_reply,   \* what YTMusic answered: an exception or a result list
  video_id,       \* videoId of the first search result
  tasks_response, \* variant list answered by search_video, held until
                  \* create_conversion_task has scanned it
  hash_sent,      \* hash posted by create_conversion_task
  task_id,        \* task id answered to create_conversion_task
  attempt,        \* completed iterations of the polling loop
  poll_replies,   \* replies to the polls of this run: HTTP status code
                  \* and, for a JSON reply, its "status" field
  download_url,   \* "download" field of the final task read
  fetch_reply,    \* reply of the asset fetch: its status code and body
  diagnostic,     \* failure message printed by the pipeline
  result,         \* return value of the pipeline
  raised,         \* exception that left the pipeline
  trace           \* external calls of the current run, in order

batchVars == <<album, idx, attempted, outcomes, added>>
runVars == <<filename, max_retries, search_reply, video_id, tasks_response,
             hash_sent, task_id,
             attempt, poll_replies, download_url, fetch_reply, diagnostic,
             result, raised, trace>>
vars == <<album, idx, attempted, outcomes, added, fs, pc, filename,
          max_retries, search_reply, video_id, tasks_response, hash_sent,
          task_id, attempt,
          poll_replies, download_url, fetch_reply, diagnostic, result,
          raised, trace>>

\* locals of a pipeline run before its first statement
FreshRun ==
  /\ search_reply = <<>>
  /\ tasks_response = <<>>
  /\ hash_sent = None
  /\ task_id = None
  /\ attempt = 0
  /\ poll_replies = <<>>
  /\ download_url = None
  /\ fetch_reply = <<>>
  /\ diagnostic = ""
  /\ result = NotReturned
  /\ raised = None
  /\ trace = <<>>

\* callback -> process_album(album): temp_dir was just created and is empty
Init ==
  /\ album \in [1..MaxTracks -> Tracks]
  /\ idx = 1
  /\ attempted = <<>>
  /\ outcomes = <<>>
  /\ added = <<>>
  /\ fs = [f \in Filenames |-> NoFile]
  /\ pc = "process_album"
  /\ filename = None
  /\ max_retries = DEFAULT_MAX_RETRIES
  /\ video_id = None
  /\ FreshRun

\* the same call for an album with one track more
LongAlbum == MaxTracks + 1
InitLongAlbum ==
  /\ album \in [1..LongAlbum -> Tracks]
  /\ idx = 1
  /\ attempted = <<>>
  /\ outcomes = <<>>
  /\ added = <<>>
  /\ fs = [f \in Filenames |-> NoFile]
  /\ pc = "process_album"
  /\ filename = None
  /\ max_retries = DEFAULT_MAX_RETRIES
  /\ video_id = None
  /\ FreshRun

\* a direct call download_link(video_url, filename, max_retries)
InitLink ==
  /\ album = <<>>
  /\ idx = 1
  /\ attempted = <<>>
  /\ outcomes = <<>>
  /\ added = <<>>
  /\ fs = [f \in Filenames |-> NoFile]
  /\ pc = "search_video"
  /\ filename \in Filenames
  /\ max_retries \in 0..MaxRetries
  /\ video_id = "abc123"
  /\ FreshRun


(* ---------------- the batch driver ---------------- *)
ResetRun ==
  /\ search_reply' = <<>>
  /\ video_id' = None
  /\ tasks_response' = <<>>
  /\ hash_sent' = None
  /\ task_id' = None
  /\ attempt' = 0
  /\ poll_replies' = <<>>
  /\ download_url' = None
  /\ fetch_reply' = <<>>
  /\ diagnostic' = ""
  /\ result' = NotReturned
  /\ raised' = None
  /\ trace' = <<>>

\* process_album, loop body for a track without artist metadata
\* ("continue") or with an attached file (the if is not taken)
SkipTrack ==
  /\ pc = "process_album"
  /\ idx <= Len(album)
  /\ ~Eligible(album[idx])
  /\ idx' = idx + 1
  /\ UNCHANGED <<album, attempted, outcomes, added, fs, pc>>
  /\ UNCHANGED runVars

\* process_album -> download_track -> search_and_download(query, filename)
StartTrack ==
  /\ pc = "process_album"
  /\ idx <= Len(album)
  /\ Eligible(album[idx])
  /\ attempted' = Append(attempted, idx)
  /\ filename' = Filename(album[idx].title)
  /\ pc' = "search_and_download"
  /\ ResetRun
  /\ UNCHANGED <<album, idx, outcomes, added, fs, max_retries>>

\* search_and_download returned: download_track prints and returns the
\* value, process_album calls track.tagger.add_files([filename]) and the
\* loop moves on
DownloadTrackReturns ==
  /\ pc = "returned"
  /\ outcomes' = Append(outcomes, result)
  /\ added' = Append(added, filename)
  /\ idx' = idx + 1
  /\ pc' = "process_album"
  /\ filename' = None
  /\ ResetRun
  /\ UNCHANGED <<album, attempted, fs, max_retries>>

\* an exception left search_and_download: nothing in download_track,
\* process_album or callback catches it, so the loop is abandoned
Propagate ==
  /\ pc = "raised"
  /\ pc' = "aborted"
  /\ UNCHANGED batchVars
  /\ UNCHANGED fs
  /\ UNCHANGED runVars

(* ---------------- Metadata Resolver: search_and_download ---------------- *)
\* mutant: no except clause around the search
OnSearchExceptionReraise == "raise"

\* the except clause of search_and_download: what the function does with
\* an exception of YTMusic() or ytmusic.search
OnSearchException == "return False"

\* YTMusic() or ytmusic.search(query, filter="songs") raises
SearchRaises ==
  /\ pc = "search_and_download"
  /\ \E where \in {"YTMusic", "search"} :
       /\ search_reply' = <<[raised_in |-> where, results |-> <<>>]>>
       /\ trace' = IF where = "search" THEN Append(trace, "text_search") ELSE trace
  /\ IF OnSearchException = "return False"
     THEN /\ diagnostic' = SearchServiceError
          /\ result' = "False"
          /\ pc' = "returned"
          /\ UNCHANGED raised
     ELSE /\ raised' = "Exception"
          /\ pc' = "raised"
          /\ UNCHANGED <<diagnostic, result>>
  /\ UNCHANGED batchVars
  /\ UNCHANGED <<fs, filename, max_retries, video_id, tasks_response, hash_sent,
                 task_id, attempt, poll_replies, download_url, fetch_reply>>

\* mutant: a first result without videoId is reported like an empty list
ResolveConflated(search_results) ==
  IF search_results = <<>> THEN NotFound
  ELSE IF ~Truthy(search_results[1].videoId) THEN NotFound
  ELSE IF ~search_results[1].title THEN "KeyError"
  ELSE IF search_results[1].album = "absent" THEN "KeyError"
  ELSE IF search_results[1].album = "None" THEN "TypeError"
  ELSE "download_link"

\* lines 150-166 of search_and_download on the list the search returned
Resolve(search_results) ==
  IF search_results = <<>> THEN NotFound
  ELSE LET first_result == search_results[1] IN
       IF ~Truthy(first_result.videoId) THEN IncompleteResult
       ELSE IF ~first_result.title THEN "KeyError"
       ELSE IF first_result.album = "absent" THEN "KeyError"
       ELSE IF first_result.album = "None" THEN "TypeError"
       ELSE "download_link"

\* the return value that goes with a diagnostic of search_and_download
ReturnValue(d) == IF d = IncompleteResult THEN "None" ELSE "False"

\* ytmusic.search returned a list
SearchReturns ==
  /\ pc = "search_and_download"
  /\ \E search_results \in SearchResultLists :
       LET r == Resolve(search_results) IN
       /\ search_reply' = <<[raised_in |-> None, results |-> search_results]>>
       /\ video_id' = IF search_results = <<>> THEN None
                      ELSE search_results[1].videoId
       /\ trace' = Append(trace, "text_search")
       /\ IF r \in {NotFound, IncompleteResult}
          THEN /\ diagnostic' = r
               /\ result' = ReturnValue(r)
               /\ pc' = "returned"
               /\ UNCHANGED raised
          ELSE IF r \in {"KeyError", "TypeError"}
          THEN /\ raised' = r
               /\ pc' = "raised"
               /\ UNCHANGED <<diagnostic, result>>
          ELSE /\ pc' = "search_video"
               /\ UNCHANGED <<diagnostic, result, raised>>
  /\ UNCHANGED batchVars
  /\ UNCHANGED <<fs, filename, max_retries, tasks_response, hash_sent, task_id,
                 attempt, poll_replies, download_url, fetch_reply>>


(* ---------------- post_call ---------------- *)
\* mutant: post_call hands the body back whatever the status
PostCallNoRaise(status) == "json"

\* what post_call does with a reply of the given status: hands the JSON
\* body to its caller, or raises through response.raise_for_status()
PostCall(status) == IF ok(status) THEN "json" ELSE "HTTPError"

(* ---------------- Conversion Requester ---------------- *)
\* download_link line 111: search_video posts {ftype, url}
SearchVideo ==
  /\ pc = "search_video"
  /\ trace' = Append(trace, "submit_search")
  /\ \E status \in PostStatuses :
       IF PostCall(status) = "json"
       THEN /\ \E tasks \in VariantLists : tasks_response' = tasks
            /\ pc' = "create_conversion_task"
            /\ UNCHANGED raised
       ELSE /\ raised' = PostCall(status)
            /\ pc' = "raised"
            /\ UNCHANGED tasks_response
  /\ UNCHANGED batchVars
  /\ UNCHANGED <<fs, filename, max_retries, search_reply, video_id, hash_sent,
                 task_id, attempt, poll_replies, download_url, fetch_reply,
                 diagnostic, result>>

\* download_link lines 113-116 with create_conversion_task: scan the
\* variants, post the hash of the first match, test the task id.  The
\* variant list is not read again after the scan.
CreateConversionTask ==
  /\ pc = "create_conversion_task"
  /\ LET k == FirstMatch(tasks_response, BITRATE_192) IN
     IF k = 0
     THEN /\ diagnostic' = NoMatchingVariant
          /\ result' = "False"
          /\ pc' = "returned"
          /\ UNCHANGED <<trace, hash_sent, task_id, raised>>
     ELSE /\ trace' = Append(trace, "create_task")
          /\ hash_sent' = tasks_response[k].hash
          /\ \E status \in PostStatuses :
               IF PostCall(status) = "json"
               THEN \E reply \in TaskIdReplies :
                      /\ task_id' = reply
                      /\ IF Truthy(reply)
                         THEN /\ pc' = "wait"
                              /\ UNCHANGED <<diagnostic, result>>
                         ELSE /\ diagnostic' = NoMatchingVariant
                              /\ result' = "False"
                              /\ pc' = "returned"
                      /\ UNCHANGED raised
               ELSE /\ raised' = PostCall(status)
                    /\ pc' = "raised"
                    /\ UNCHANGED <<task_id, diagnostic, result>>
  /\ tasks_response' = <<>>
  /\ UNCHANGED batchVars
  /\ UNCHANGED <<fs, filename, max_retries, search_reply, video_id, attempt,
                 poll_replies, download_url, fetch_reply>>

(* ---------------- Task Poller: wait_for_conversion_completion ---------------- *)
\* one iteration of the loop up to the status test
Poll ==
  /\ pc = "wait"
  /\ attempt < AttemptBudget(max_retries)
  /\ trace' = Append(trace, "poll_task")
  /\ \E status \in PostStatuses :
       IF PostCall(status) = "json"
       THEN \E reply \in PollReplies :
              /\ poll_replies' =
                   Append(poll_replies, [http |-> status, status |-> reply])
              /\ pc' = IF IsFinished(reply) THEN "read_task" ELSE "sleep"
              /\ UNCHANGED raised
       ELSE /\ poll_replies' =
                 Append(poll_replies, [http |-> status, status |-> None])
            /\ raised' = PostCall(status)
            /\ pc' = "raised"
  /\ UNCHANGED batchVars
  /\ UNCHANGED <<fs, filename, max_retries, search_reply, video_id,
                 tasks_response, hash_sent, task_id, attempt, download_url,
                 fetch_reply, diagnostic, result>>

\* time.sleep(1), then the next iteration or, with the range exhausted,
\* "return False" and the TimedOut branch of download_link
Sleep ==
  /\ pc = "sleep"
  /\ trace' = Append(trace, "sleep")
  /\ attempt' = attempt + 1
  /\ IF attempt + 1 < AttemptBudget(max_retries)
     THEN /\ pc' = "wait"
          /\ UNCHANGED <<diagnostic, result>>
     ELSE /\ diagnostic' = TimedOut
          /\ result' = "False"
          /\ pc' = "returned"
  /\ UNCHANGED batchVars
  /\ UNCHANGED <<fs, filename, max_retries, search_reply, video_id,
                 tasks_response, hash_sent, task_id, poll_replies, download_url,
                 fetch_reply, raised>>

(* ---------------- Asset Downloader ---------------- *)
\* download_link lines 124-128: the final read of the task
ReadTask ==
  /\ pc = "read_task"
  /\ trace' = Append(trace, "read_task")
  /\ \E status \in PostStatuses :
       IF PostCall(status) = "json"
       THEN \E reply \in DownloadReplies :
              /\ download_url' = reply
              /\ IF Truthy(reply)
                 THEN /\ pc' = "download_mp3"
                      /\ UNCHANGED <<diagnostic, result>>
                 ELSE /\ diagnostic' = MissingAssetURL
                      /\ result' = "False"
                      /\ pc' = "returned"
              /\ UNCHANGED raised
       ELSE /\ raised' = PostCall(status)
            /\ pc' = "raised"
            /\ UNCHANGED <<download_url, diagnostic, result>>
  /\ UNCHANGED batchVars
  /\ UNCHANGED <<fs, filename, max_retries, search_reply, video_id,
                 tasks_response, hash_sent, task_id, attempt, poll_replies,
                 fetch_reply>>

\* f.write(response.content)
Written(content) == content

\* download_mp3: requests.get, then the file is opened and written, or
\* the status code is printed
DownloadMp3 ==
  /\ pc = "download_mp3"
  /\ \E status \in GetStatuses, content \in Bytes :
       /\ fetch_reply' = <<[status |-> status, content |-> content]>>
       /\ IF FetchAccepted(status)
          THEN /\ trace' = trace \o <<"fetch_asset", "write_file">>
               /\ fs' = [fs EXCEPT ![filename] = Written(content)]
               /\ result' = "True"
               /\ UNCHANGED diagnostic
          ELSE /\ trace' = Append(trace, "fetch_asset")
               /\ diagnostic' = TransferFailed
               /\ result' = "False"
               /\ UNCHANGED fs
  /\ pc' = "returned"
  /\ UNCHANGED batchVars
  /\ UNCHANGED <<filename, max_retries, search_reply, video_id, tasks_response,
                 hash_sent, task_id, attempt, poll_replies, download_url, raised>>

(* ---------------- specifications ---------------- *)
\* a batch: callback -> process_album over the album's tracks
Next ==
  \/ SkipTrack
  \/ StartTrack
  \/ DownloadTrackReturns
  \/ Propagate
  \/ SearchRaises
  \/ SearchReturns
  \/ SearchVideo
  \/ CreateConversionTask
  \/ Poll
  \/ Sleep
  \/ ReadTask
  \/ DownloadMp3

Spec == Init /\ [][Next]_vars

\* a batch over the longer album
SpecLongAlbum == InitLongAlbum /\ [][Next]_vars

\* one direct call of download_link with any max_retries
NextLink ==
  \/ SearchVideo
  \/ CreateConversionTask
  \/ Poll
  \/ Sleep
  \/ ReadTask
  \/ DownloadMp3

SpecLink == InitLink /\ [][NextLink]_vars


(* ---------------- vocabulary of the properties ---------------- *)
Count(seq, x) == Cardinality({i \in 1..Len(seq) : seq[i] = x})
Last(seq) == seq[Len(seq)]

\* status queries the poller has issued in the current run
Polls == Count(trace, "poll_task")

\* wait_for_conversion_completion returned True: download_link went on to
\* the final task read
Completed == pc \in {"read_task", "download_mp3"} \/ Count(trace, "read_task") > 0

\* the position of a call in the pipeline
Rank(c) ==
  CASE c = "text_search" -> 1
    [] c = "submit_search" -> 2
    [] c = "create_task" -> 3
    [] c \in {"poll_task", "sleep"} -> 4
    [] c = "read_task" -> 5
    [] c \in {"fetch_asset", "write_file"} -> 6

RunOver == pc \in {"returned", "raised", "aborted"}

AttemptedSet == {attempted[k] : k \in 1..Len(attempted)}

\* process_album has left its loop, normally or by an exception
BatchEnded == pc = "aborted" \/ (pc = "process_album" /\ idx > Len(album))

NoTargetVariant(tasks) == \A k \in 1..Len(tasks) : tasks[k].bitrate # 192

(* ---------------- C1 ---------------- *)
\* C1: for every max_retries >= 0 the poller issues at most max_retries + 1
\* status queries; a query answered "finished" is the last one and makes
\* the poller return True; the poller returns True only after a query
\* answered "finished".
C1_PollerBound ==
  /\ Polls <= max_retries + 1
  /\ Len(poll_replies) = Polls
  /\ \A i \in 1..Len(poll_replies) :
       poll_replies[i].status = "finished" =>
         /\ i = Len(poll_replies)
         /\ Completed
  /\ Completed =>
       /\ Len(poll_replies) > 0
       /\ Last(poll_replies).status = "finished"

\* "finished" arrives at the very last query the budget allows
C1_Witness ==
  /\ pc = "read_task"
  /\ max_retries = 2
  /\ Polls = 3
  /\ poll_replies[1].status = "pending"
  /\ poll_replies[3].status = "finished"

(* ---------------- C2 ---------------- *)
\* C2 (as claimed): a run that ends in a tagged failure is a run that
\* returns False or None to download_track, and once process_album has
\* ended, every track behind such a run that has artist metadata and no
\* attached file was attempted.
C2_TaggedFailureDoesNotStopBatch ==
  /\ diagnostic \in TaggedFailures =>
       (pc = "returned" /\ result \in {"False", "None"} /\ raised = None)
  /\ (pc = "returned" /\ result \in {"False", "None"}) =>
       diagnostic \in TaggedFailures
  /\ BatchEnded =>
       \A k \in 1..Len(outcomes) :
         outcomes[k] \in {"False", "None"} =>
           \A j \in (attempted[k] + 1)..Len(album) :
             Eligible(album[j]) => j \in AttemptedSet

(* ---------------- C3 ---------------- *)
\* C3 (as claimed): an HTTP failure of a conversion-service call never
\* aborts the batch: when process_album has ended after such a failure,
\* every eligible track behind the failing one was attempted.
C3_HttpFailureKeepsBatchGoing ==
  (BatchEnded /\ raised = "HTTPError") =>
    \A j \in (idx + 1)..Len(album) :
      Eligible(album[j]) => j \in AttemptedSet

(* ---------------- C4 ---------------- *)
\* C4: the calls of a run follow the pipeline order, no stage is skipped,
\* every stage but the polling is called once, a stage is entered only
\* when the one before it delivered what it needs, and a run that failed
\* is over with no call behind the failing stage.
C4_StagesInOrder ==
  /\ \A i \in 1..(Len(trace) - 1) : Rank(trace[i]) <= Rank(trace[i + 1])
  /\ \A c \in {"text_search", "submit_search", "create_task", "read_task",
               "fetch_asset"} : Count(trace, c) <= 1
  /\ Len(trace) > 0 => Rank(trace[1]) = 1
  /\ \A i \in 1..(Len(trace) - 1) : Rank(trace[i + 1]) <= Rank(trace[i]) + 1
  /\ Count(trace, "submit_search") > 0 =>
       /\ search_reply # <<>>
       /\ search_reply[1].raised_in = None
       /\ search_reply[1].results # <<>>
       /\ video_id \notin {None, ""}
  /\ Count(trace, "create_task") > 0 => hash_sent \in Hashes
  /\ Count(trace, "poll_task") > 0 => task_id \notin {None, ""}
  /\ Count(trace, "read_task") > 0 =>
       /\ Len(poll_replies) > 0
       /\ Last(poll_replies).status = "finished"
  /\ Count(trace, "fetch_asset") > 0 => download_url \notin {None, ""}
  /\ (diagnostic # "" \/ raised # None) => RunOver
  /\ diagnostic \in {SearchServiceError, NotFound, IncompleteResult} =>
       \A i \in 1..Len(trace) : Rank(trace[i]) <= 1
  /\ diagnostic = NoMatchingVariant =>
       \A i \in 1..Len(trace) : Rank(trace[i]) <= 3
  /\ diagnostic = TimedOut =>
       \A i \in 1..Len(trace) : Rank(trace[i]) <= 4
  /\ diagnostic = MissingAssetURL =>
       \A i \in 1..Len(trace) : Rank(trace[i]) <= 5
  /\ raised = "HTTPError" =>
       Last(trace) \in {"submit_search", "create_task", "poll_task", "read_task"}

\* a complete run: one pending poll, then finished, then the download
C4_Witness ==
  /\ pc = "returned"
  /\ trace = <<"text_search", "submit_search", "create_task", "poll_task",
               "sleep", "poll_task", "read_task", "fetch_asset", "write_file">>

(* ---------------- C5 ---------------- *)
\* C5: when create_conversion_task scans a variant list without a 192
\* variant, download_link returns False with the NoMatchingVariant
\* diagnostic in that very step: no task-creation call, no poll, no write;
\* and a run that has returned issues no call and writes no file.
C5_NoMatchingVariant ==
  [][ /\ (pc = "create_conversion_task" /\ NoTargetVariant(tasks_response)) =>
           /\ pc' = "returned"
           /\ diagnostic' = NoMatchingVariant
           /\ result' = "False"
           /\ Count(trace', "create_task") = 0
           /\ Count(trace', "poll_task") = 0
           /\ Count(trace', "write_file") = 0
           /\ fs' = fs
      /\ pc = "returned" => (fs' = fs /\ trace' \in {trace, <<>>})
    ]_vars

\* the run ended right after variant discovery, nothing written
C5_Witness ==
  /\ pc = "returned"
  /\ diagnostic = NoMatchingVariant
  /\ result = "False"
  /\ trace = <<"submit_search">>
  /\ fs[filename] = NoFile

(* ---------------- C6 ---------------- *)
\* C6: an empty result list gives NotFound (return value False), a first
\* result without videoId gives IncompleteResult (return value None); in
\* both cases the text search is the only call of the run.
C6_NotFoundAndIncomplete ==
  (search_reply # <<>> /\ search_reply[1].raised_in = None) =>
    LET sr == search_reply[1].results IN
    /\ sr = <<>> =>
         /\ pc = "returned"
         /\ diagnostic = NotFound
         /\ result = "False"
         /\ trace = <<"text_search">>
    /\ (sr # <<>> /\ sr[1].videoId \in {None, ""}) =>
         /\ pc = "returned"
         /\ diagnostic = IncompleteResult
         /\ result = "None"
         /\ trace = <<"text_search">>

\* a batch in which the first track failed and the search for the second
\* one gave a result without videoId
C6_Witness ==
  /\ Len(outcomes) = 1
  /\ outcomes[1] = "False"
  /\ pc = "returned"
  /\ search_reply # <<>>
  /\ search_reply[1].results # <<>>
  /\ diagnostic = IncompleteResult
  /\ result = "None"

(* ---------------- C7 ---------------- *)
\* C7: when all max_retries + 1 polls are answered and none says
\* "finished", download_link returns False with the TimedOut diagnostic;
\* a run that timed out made exactly max_retries + 1 polls, no final task
\* read, no asset fetch, and wrote no file.
C7_TimedOut ==
  /\ ( /\ Len(poll_replies) = max_retries + 1
       /\ \A i \in 1..Len(poll_replies) : poll_replies[i].status = "pending"
       /\ pc # "sleep" ) =>
       /\ pc = "returned"
       /\ diagnostic = TimedOut
       /\ result = "False"
  /\ diagnostic = TimedOut =>
       /\ Polls = max_retries + 1
       /\ Count(trace, "read_task") = 0
       /\ Count(trace, "fetch_asset") = 0
       /\ Count(trace, "write_file") = 0
       /\ fs[filename] = NoFile

\* scenario C: max_retries = 2, three polls, TimedOut
C7_Witness ==
  /\ pc = "returned"
  /\ max_retries = 2
  /\ diagnostic = TimedOut
  /\ Polls = 3

(* ---------------- C8 ---------------- *)
\* C8 (as claimed): a run whose search gave a first result with a
\* videoId, whose k-th poll was the first one answered "finished", whose
\* final task read carried a download URL and whose asset fetch was
\* answered with a success status returns True after exactly k polls
\* (k <= max_retries + 1), and the destination holds the fetched bytes.
C8_Success ==
  ( /\ pc = "returned"
    /\ search_reply # <<>>
    /\ search_reply[1].raised_in = None
    /\ search_reply[1].results # <<>>
    /\ search_reply[1].results[1].videoId \notin {None, ""}
    /\ Len(poll_replies) > 0
    /\ Last(poll_replies).status = "finished"
    /\ download_url \notin {None, ""}
    /\ fetch_reply # <<>>
    /\ fetch_reply[1].status \in 200..299 ) =>
    /\ result = "True"
    /\ diagnostic = ""
    /\ \A i \in 1..(Len(poll_replies) - 1) : poll_replies[i].status = "pending"
    /\ Polls = Len(poll_replies)
    /\ Polls <= max_retries + 1
    /\ Count(trace, "write_file") = 1
    /\ fs[filename] = fetch_reply[1].content

(* ---------------- C9 ---------------- *)
\* C9: a poll answered with an HTTP error status is the last poll of the
\* run: the exception leaves the poller, which returns neither True nor
\* False, and download_link prints no TimedOut diagnostic.
C9_PollErrorPropagates ==
  \A i \in 1..Len(poll_replies) :
    poll_replies[i].http \in 400..599 =>
      /\ i = Len(poll_replies)
      /\ Polls = i
      /\ Last(trace) = "poll_task"
      /\ pc = "raised"
      /\ raised = "HTTPError"
      /\ result = NotReturned
      /\ diagnostic = ""
      /\ ~Completed

\* the second of three allowed polls is answered 404
C9_Witness ==
  /\ pc = "raised"
  /\ max_retries = 2
  /\ Len(poll_replies) = 2
  /\ poll_replies[1].status = "pending"
  /\ poll_replies[2].http = 404

(* ---------------- C10 ---------------- *)
\* C10: an exception of YTMusic() or of ytmusic.search ends the run as a
\* returned failure (False, SearchServiceError diagnostic); nothing is
\* raised to the caller and no conversion-service call is made.
C10_SearchExceptionCaught ==
  (search_reply # <<>> /\ search_reply[1].raised_in # None) =>
    /\ pc = "returned"
    /\ raised = None
    /\ result = "False"
    /\ diagnostic = SearchServiceError
    /\ \A i \in 1..Len(trace) : trace[i] = "text_search"

\* the search call itself raised
C10_Witness ==
  /\ pc = "returned"
  /\ search_reply = <<[raised_in |-> "search", results |-> <<>>]>>
  /\ diagnostic = SearchServiceError
  /\ trace = <<"text_search">>


(* ---------------- C11 ---------------- *)
\* C11: when the final task read is answered without a download URL
\* (missing or empty), download_link returns False with the
\* MissingAssetURL diagnostic although the poller saw "finished"; no
\* asset fetch is made and no file is written.
C11_MissingAssetURL ==
  ( /\ Count(trace, "read_task") = 1
    /\ raised = None
    /\ download_url \in {None, ""} ) =>
    /\ pc = "returned"
    /\ diagnostic = MissingAssetURL
    /\ result = "False"
    /\ Last(trace) = "read_task"
    /\ Count(trace, "fetch_asset") = 0
    /\ Count(trace, "write_file") = 0
    /\ fetch_reply = <<>>
    /\ fs[filename] = NoFile
    /\ Last(poll_replies).status = "finished"

\* "finished" at the second poll, then a final read with an empty URL
C11_Witness ==
  /\ pc = "returned"
  /\ diagnostic = MissingAssetURL
  /\ download_url = ""
  /\ Polls = 2
  /\ poll_replies[2].status = "finished"

(* ---------------- C12 ---------------- *)
\* the success class of HTTP status codes
Is2xx(status) == status \in 200..299

\* C12: download_mp3 returns True and writes the response body to the
\* destination for every asset-fetch response with a 2xx status, and
\* reports TransferFailed without writing the destination for every
\* other status.
C12_Every2xxIsSaved ==
  fetch_reply # <<>> =>
    /\ pc = "returned"
    /\ IF Is2xx(fetch_reply[1].status)
       THEN /\ result = "True"
            /\ Last(trace) = "write_file"
            /\ fs[filename] = fetch_reply[1].content
       ELSE /\ result = "False"
            /\ diagnostic = TransferFailed
            /\ Count(trace, "write_file") = 0
            /\ fs[filename] = NoFile

(* ---------------- C13 ---------------- *)
\* C13: the poller waits only between attempts: every sleep is followed
\* by another status query, the query answered "finished" is followed by
\* no sleep, and a finished run of n queries holds at most n - 1 sleeps.
C13_WaitsOnlyBetweenAttempts ==
  /\ \A i \in 1..Len(trace) :
       trace[i] = "sleep" =>
         IF i < Len(trace) THEN trace[i + 1] = "poll_task" ELSE pc = "wait"
  /\ Completed => Count(trace, "sleep") = Polls - 1
  /\ (RunOver /\ Polls > 0) => Count(trace, "sleep") <= Polls - 1

(* ---------------- C14 ---------------- *)
\* C14: when the variant list holds one or more 192 variants, the step of
\* create_conversion_task posts the hash of the first of them in list
\* order (every variant before it has another bitrate) and issues that
\* one task-creation call; no other step of the run issues a
\* task-creation call or changes the hash that was sent.
C14_FirstTargetVariant ==
  [][ /\ (pc = "create_conversion_task" /\ ~NoTargetVariant(tasks_response)) =>
           \E k \in 1..Len(tasks_response) :
             /\ tasks_response[k].bitrate = BITRATE_192
             /\ \A j \in 1..(k - 1) : tasks_response[j].bitrate # BITRATE_192
             /\ hash_sent' = tasks_response[k].hash
             /\ trace' = Append(trace, "create_task")
      /\ Count(trace', "create_task") <= 1
      /\ pc # "create_conversion_task" =>
           /\ hash_sent' \in {hash_sent, None}
           /\ Count(trace', "create_task") <= Count(trace, "create_task")
    ]_vars

\* the state the scan starts from: two 192 variants with different hashes
C14_Witness ==
  /\ pc = "create_conversion_task"
  /\ trace = <<"submit_search">>
  /\ Len(tasks_response) = 2
  /\ tasks_response[1].bitrate = BITRATE_192
  /\ tasks_response[2].bitrate = BITRATE_192
  /\ tasks_response[1].hash # tasks_response[2].hash
  /\ ENABLED CreateConversionTask

(* ---------------- C15 ---------------- *)
\* the tracks process_album has to hand to download_track
EligibleSet == {i \in 1..Len(album) : Eligible(album[i])}

\* C15: process_album starts the pipeline only for tracks with artist
\* metadata and no attached file, in the order of album.tracks, one run
\* at a time and none twice; and when process_album is over, every such
\* track has had its run.
C15_EachEligibleTrackOnce ==
  /\ \A k \in 1..Len(attempted) : attempted[k] \in EligibleSet
  /\ \A k \in 1..(Len(attempted) - 1) : attempted[k] < attempted[k + 1]
  /\ Len(attempted) - Len(outcomes) \in {0, 1}
  /\ pc = "process_album" => Len(outcomes) = Len(attempted)
  /\ BatchEnded => AttemptedSet = EligibleSet

(* ---------------- C16 ---------------- *)
\* C16: a run of download_link writes the destination file at most once,
\* and only as its last step after a poll answered "finished", a final
\* read that gave a download URL and an asset fetch with a success
\* status; the run returns True exactly when that write has happened.
C16_WriteOnceAndOnlyOnSuccess ==
  LET n == Len(trace)
      written == Count(trace, "write_file") > 0 IN
  /\ Count(trace, "write_file") <= 1
  /\ written =>
       /\ n >= 3
       /\ trace[n] = "write_file"
       /\ trace[n - 1] = "fetch_asset"
       /\ trace[n - 2] = "read_task"
       /\ Polls > 0
       /\ Last(poll_replies).status = "finished"
       /\ download_url \notin {None, ""}
       /\ fetch_reply # <<>>
       /\ Is2xx(fetch_reply[1].status)
       /\ fs[filename] = fetch_reply[1].content
  /\ ~written => fs[filename] = NoFile
  /\ result = "True" => RunOver
  /\ RunOver => (result = "True" <=> written)

\* a run that polled twice, fetched the asset and saved its bytes
C16_Witness ==
  /\ pc = "returned"
  /\ result = "True"
  /\ Polls = 2
  /\ Count(trace, "write_file") = 1
  /\ fetch_reply[1].content = "y"
  /\ fs[filename] = "y"

(* ---------------- C17 ---------------- *)
\* C17: whenever the first search result carries a videoId, the run goes
\* on to the conversion (variant discovery is the next call) whatever
\* title and album fields the result has; no exception comes out of the
\* progress prints.
C17_DisplayFieldsNotRequired ==
  ( /\ search_reply # <<>>
    /\ search_reply[1].raised_in = None
    /\ search_reply[1].results # <<>>
    /\ search_reply[1].results[1].videoId \notin {None, ""} ) =>
    /\ raised \notin {"KeyError", "TypeError"}
    /\ pc = "search_video" \/ Count(trace, "submit_search") = 1

(* ---------------- C18 ---------------- *)
\* C18: the NoMatchingVariant diagnostic is given only by a run that has
\* issued no task-creation call (the variant list had no 192 variant); a
\* run whose task-creation call came back without a task id does not end
\* with that diagnostic.
C18_NoMatchingVariantOnlyWithoutTask ==
  /\ diagnostic = NoMatchingVariant => Count(trace, "create_task") = 0
  /\ (Count(trace, "create_task") > 0 /\ task_id \in {None, ""}) =>
       diagnostic # NoMatchingVariant

(* ---------------- C19 ---------------- *)
\* C19: process_album hands a path to add_files only for a track whose
\* run returned True: the k-th path handed over belongs to the k-th run
\* that returned, and that run was a success.
C19_AddFilesOnlyOnSuccess ==
  /\ Len(added) = Len(outcomes)
  /\ \A k \in 1..Len(added) : outcomes[k] = "True"

(* ---------------- C20 ---------------- *)
\* C20: two different tracks of one batch never get the same destination
\* path, and no run writes to a path that was handed to add_files for an
\* earlier track.
C20_DistinctDestinations ==
  /\ \A i, j \in AttemptedSet :
       i # j => Filename(album[i].title) # Filename(album[j].title)
  /\ Count(trace, "write_file") > 0 =>
       \A k \in 1..Len(added) : added[k] # filename

====
